---- MODULE Spec2Model ----
(***************************************************************************)
(* A model of openacid/slimarray: the SlimArray container (NewU32, Get,    *)
(* Len, Stat), its segment encoder and span optimizer, and the SlimBytes   *)
(* wrapper (NewBytes, Get).                                                *)
(*                                                                         *)
(* Number representation.  TLC integers are 32 bits wide, the program's    *)
(* are 32 and 64 bits wide.  An integer of the program is held as a record *)
(* [h, l] that stands for h * 2^16 + l with 0 <= l < 2^16 ("Big"); a       *)
(* float64 is held as a Big numerator over the fixed denominator FracDen,  *)
(* and arithmetic on it is exact.  A uint64 word (Bitmap, Residuals) is    *)
(* the set of the positions of its 1 bits, a subset of 0..63.              *)
(*                                                                         *)
(* The least-squares solver works in float64 with Cramer's rule; the model *)
(* replaces it by a family of deterministic curve fits (SolveKinds), one   *)
(* of which is chosen with the input.                                      *)
(***************************************************************************)
EXTENDS Integers, Sequences, FiniteSets, TLC

\* ------------------------------------------------------------- bounds
\* longest input of which every sequence over Vals is enumerated
MaxLen == 3
\* denominator of the fixed-point stand-in for float64
FracDen == 4

\* ---------------------------------------------------- program constants
minSpan == 16
segSize == 1024
segSizeShift == 10
segSizeMask == 1023
polyDegree == 2
polyCoefCnt == polyDegree + 1
wordBits == 64

\* ------------------------------------------------ wide integer arithmetic
LimbBase == 2^16

Big(n) == [h |-> n \div LimbBase, l |-> n % LimbBase]

BigNorm(h, l) == [h |-> h + (l \div LimbBase), l |-> l % LimbBase]

BigAdd(a, b) == BigNorm(a.h + b.h, a.l + b.l)

BigSub(a, b) == BigNorm(a.h - b.h, a.l - b.l)

BigNeg(a) == BigNorm(0 - a.h, 0 - a.l)

\* a * k for a small integer k
BigMulInt(a, k) == BigNorm(a.h * k, a.l * k)

\* floor(a / k) for a small integer k > 0
BigDivInt(a, k) ==
    [h |-> a.h \div k, l |-> ((a.h % k) * LimbBase + a.l) \div k]

BigLt(a, b) == a.h < b.h \/ (a.h = b.h /\ a.l < b.l)

BigLe(a, b) == a = b \/ BigLt(a, b)

\* the value as a TLC integer, for values known to be small
BigInt(a) == a.h * LimbBase + a.l

\* uint32(a): the low 32 bits
U32(a) == [h |-> a.h % LimbBase, l |-> a.l]

\* int32(a): the low 32 bits read as a signed number
I32(a) ==
    LET u == U32(a)
    IN  IF u.h >= LimbBase \div 2 THEN [h |-> u.h - LimbBase, l |-> u.l] ELSE u

U32Max == [h |-> LimbBase - 1, l |-> LimbBase - 1]

\* number of bits of a small non-negative integer (64 - LeadingZeros)
RECURSIVE IntBitLen(_)
IntBitLen(n) == IF n = 0 THEN 0 ELSE 1 + IntBitLen(n \div 2)

\* bits.LeadingZeros64(uint64(a)) subtracted from 64, for a >= 0
BigBitLen(a) == IF a.h > 0 THEN 16 + IntBitLen(a.h) ELSE IntBitLen(a.l)

\* the positions of the 1 bits of a value in [0, 2^32)
BigBits(a) ==
    {b \in 0..15 : (a.l \div (2^b)) % 2 = 1}
      \cup {b + 16 : b \in {c \in 0..15 : (a.h \div (2^c)) % 2 = 1}}

RECURSIVE SumPow2(_)
SumPow2(S) ==
    IF S = {} THEN 0
    ELSE LET b == CHOOSE x \in S : TRUE IN 2^b + SumPow2(S \ {b})

\* the value whose 1 bits are at the positions S, S a subset of 0..31
BitsToBig(S) ==
    [h |-> SumPow2({b - 16 : b \in {c \in S : c >= 16}}),
     l |-> SumPow2({b \in S : b < 16})]

\* bitmap.Mask[k]: the k lowest bits
Mask(k) == 0..(k - 1)

\* ------------------------------------------------------- float64 stand-in
\* float64(n) for an integer n
Float(n) == BigMulInt(n, FracDen)

\* int64(f): truncation toward zero
FloatToInt64(f) ==
    IF f.h >= 0 THEN BigDivInt(f, FracDen)
    ELSE BigNeg(BigDivInt(BigNeg(f), FracDen))

\* math.Ceil(f) converted to int64
FloatCeil(f) == BigNeg(BigDivInt(BigNeg(f), FracDen))

evalPoly2(poly, x) ==
    BigAdd(BigAdd(poly[1], BigMulInt(poly[2], x)),
           BigMulInt(BigMulInt(poly[3], x), x))

\* ------------------------------------------------------------- polyfit
SolveKinds == {"flat", "chord", "curve"}

\* A fitting session.  XtX and XtY are sums over the samples added; the model
\* keeps the count N and the first and last sample index the sums range over.
NewFit(s, e, degree) == [N |-> e - s, Degree |-> degree, lo |-> s, hi |-> e - 1]

FitMerge(f, b) ==
    [N |-> f.N + b.N, Degree |-> f.Degree,
     lo |-> IF b.lo < f.lo THEN b.lo ELSE f.lo,
     hi |-> IF b.hi > f.hi THEN b.hi ELSE f.hi]

\* The curve the solver returns for the samples (x, ys[x+1]), x in f.lo..f.hi:
\* "flat" is the constant through the first sample, "chord" the line through
\* the first and the last sample, "curve" a parabola through both.  With fewer
\* than Degree+1 samples the higher coefficients are zero.
FitSolve(f, ys, kind) ==
    LET ylo   == ys[f.lo + 1]
        yhi   == ys[f.hi + 1]
        dx    == f.hi - f.lo
        slope == IF dx = 0 THEN Big(0)
                 ELSE BigDivInt(BigMulInt(BigSub(yhi, ylo), FracDen), dx)
        c     == IF kind = "curve" THEN 1 ELSE 0
        p1    == IF kind = "flat" THEN Big(0)
                 ELSE BigSub(slope, Big(c * (f.lo + f.hi)))
        p0    == IF kind = "flat" THEN Float(ylo)
                 ELSE BigAdd(BigSub(Float(ylo), BigMulInt(slope, f.lo)),
                             Big(c * f.lo * f.hi))
    IN  << p0,
           IF f.N >= 2 THEN p1 ELSE Big(0),
           IF f.N >= 3 THEN Big(c) ELSE Big(0) >>

\* ------------------------------------------- polyfit's accumulators
\* The sums XtX and XtY are float64.  Every one of them is a non-negative whole
\* number here (x is an index in [0, 1024), y a uint32), so a float64 is kept as
\* its value in four 16-bit limbs, lowest first, and every operation rounds its
\* exact result to 53 significant bits, ties to even, as float64 does.
F64Mant == 53

F64Carry(a0, a1, a2, a3) ==
    LET t1 == a1 + (a0 \div LimbBase)
        t2 == a2 + (t1 \div LimbBase)
        t3 == a3 + (t2 \div LimbBase)
    IN  << a0 % LimbBase, t1 % LimbBase, t2 % LimbBase, t3 >>

F64BitLen(v) ==
    IF v[4] > 0 THEN 48 + IntBitLen(v[4])
    ELSE IF v[3] > 0 THEN 32 + IntBitLen(v[3])
    ELSE IF v[2] > 0 THEN 16 + IntBitLen(v[2])
    ELSE IntBitLen(v[1])

\* the nearest value of 53 significant bits, the even one of two equally near
F64Round(v) ==
    IF F64BitLen(v) <= F64Mant THEN v
    ELSE
        LET q  == 2^(F64BitLen(v) - F64Mant)
            r  == v[1] % q
            up == 2 * r > q \/ (2 * r = q /\ (v[1] \div q) % 2 = 1)
        IN  F64Carry(v[1] - r + (IF up THEN q ELSE 0), v[2], v[3], v[4])

F64Zero == <<0, 0, 0, 0>>

\* float64 of a uint32
F64OfBig(n) == <<n.l, n.h, 0, 0>>

F64Add(a, b) == F64Round(F64Carry(a[1] + b[1], a[2] + b[2], a[3] + b[3], a[4] + b[4]))

\* a - b for a >= b
F64Sub(a, b) == F64Round(F64Carry(a[1] - b[1], a[2] - b[2], a[3] - b[3], a[4] - b[4]))

\* a * k for a whole number k in [0, 1024)
F64MulInt(a, k) == F64Round(F64Carry(a[1] * k, a[2] * k, a[3] * k, a[4] * k))

\* x^p, by the multiplications v *= x of Add; below 2^53 for p <= 4, so exact
RECURSIVE F64Pow(_, _)
F64Pow(x, p) == IF p = 0 THEN <<1, 0, 0, 0>> ELSE F64MulInt(F64Pow(x, p - 1), x)

\* xPowers[i] * y: x^i and the product are whole numbers below 2^53, so the product
\* is exact and equals y multiplied i times by x
RECURSIVE F64PowTimes(_, _, _)
F64PowTimes(x, p, y) == IF p = 0 THEN y ELSE F64MulInt(F64PowTimes(x, p - 1, y), x)

\* a Fit with its sums: xtx is the m*m matrix row by row, xty the m vector
AccEmpty(degree) ==
    [N |-> 0, Degree |-> degree,
     xtx |-> [k \in 1..((degree + 1) * (degree + 1)) |-> F64Zero],
     xty |-> [k \in 1..(degree + 1) |-> F64Zero]]

\* Fit.Add
AccAdd(f, x, y) ==
    LET m == f.Degree + 1
    IN  [N |-> f.N + 1, Degree |-> f.Degree,
         xtx |-> [k \in 1..(m * m) |->
                    F64Add(f.xtx[k], F64Pow(x, ((k - 1) \div m) + ((k - 1) % m)))],
         xty |-> [k \in 1..m |-> F64Add(f.xty[k], F64PowTimes(x, k - 1, F64OfBig(y)))]]

\* the loop of NewFit over the first n points: xs[i] is xStart + i
RECURSIVE AccAddAll(_, _, _, _)
AccAddAll(f, xStart, ys, n) ==
    IF n = 0 THEN f
    ELSE AccAdd(AccAddAll(f, xStart, ys, n - 1), xStart + n - 1, ys[n])

\* NewFit for xs = xStart, xStart + 1, ...
AccNewFit(xStart, ys, degree) == AccAddAll(AccEmpty(degree), xStart, ys, Len(ys))

\* as AccMerge, the sample count of f kept
AccMergeKeepN(f, b) ==
    [N |-> f.N, Degree |-> f.Degree,
     xtx |-> [k \in 1..Len(f.xtx) |-> F64Add(f.xtx[k], b.xtx[k])],
     xty |-> [k \in 1..Len(f.xty) |-> F64Add(f.xty[k], b.xty[k])]]

\* Fit.Merge, for equal degrees: the new value of f
AccMerge(f, b) ==
    [N |-> f.N + b.N, Degree |-> f.Degree,
     xtx |-> [k \in 1..Len(f.xtx) |-> F64Add(f.xtx[k], b.xtx[k])],
     xty |-> [k \in 1..Len(f.xty) |-> F64Add(f.xty[k], b.xty[k])]]

\* init, lines 95-104: XTXCache3[k+1] from XTXCache3[k] and the powers of k
cacheStep(prev, k) ==
    << F64Add(prev[1], F64Pow(k, 0)), F64Add(prev[2], F64Pow(k, 1)),
       F64Add(prev[3], F64Pow(k, 2)), F64Add(prev[4], F64Pow(k, 1)),
       F64Add(prev[5], F64Pow(k, 2)), F64Add(prev[6], F64Pow(k, 3)),
       F64Add(prev[7], F64Pow(k, 2)), F64Add(prev[8], F64Pow(k, 3)),
       F64Add(prev[9], F64Pow(k, 4)) >>

\* XTXCache3 has rows 0..cacheLen; PowCache has the xs 0..cacheLen-1
cacheLen == 1024

\* init, lines 93-104: the iterations k = lo, ..., hi - 1 in this order, each
\* appending the row XTXCache3[k+1] to the rows 0..k
\* (the rows after the first half of the iterations are bound as a value, then
\* the second half runs from them)
RECURSIVE cacheRows(_, _, _)
cacheRows(rows, lo, hi) ==
    IF hi - lo = 1 THEN Append(rows, cacheStep(rows[lo + 1], lo))
    ELSE CHOOSE all \in { cacheRows(half, (lo + hi) \div 2, hi) :
                             half \in {cacheRows(rows, lo, (lo + hi) \div 2)} } : TRUE

\* the table after init: XTXCache3[k + 1] here is XTXCache3[k] of the source, the
\* XtX of degree 2 for the xs 0, 1, ..., k-1
XTXCache3 == cacheRows(<< <<F64Zero, F64Zero, F64Zero, F64Zero, F64Zero,
                            F64Zero, F64Zero, F64Zero, F64Zero>> >>, 0, cacheLen)

\* getCachedXTX3
getCachedXTX3(a, b) == [i \in 1..9 |-> F64Sub(XTXCache3[b + 1][i], XTXCache3[a + 1][i])]

\* NewFitIntRange line 158: f.xty[j] += PowCache[x][j] * y, for the three j
cachedXtyStep(xty, x, y) ==
    [j \in 1..3 |-> F64Add(xty[j], F64PowTimes(x, j - 1, F64OfBig(y)))]

\* NewFitIntRange lines 156-160: the loop over the first n points
RECURSIVE rangeXty(_, _, _)
rangeXty(xStart, ys, n) ==
    IF n = 0 THEN [j \in 1..3 |-> F64Zero]
    ELSE cachedXtyStep(rangeXty(xStart, ys, n - 1), xStart + n - 1, ys[n])

\* as NewFitIntRange, XtX read from the cache as XTXCache3[b] alone
NewFitIntRangeFromZero(xStart, xEnd, ys, degree) ==
    IF degree + 1 = 3
    THEN [N |-> xEnd - xStart, Degree |-> degree,
          xtx |-> XTXCache3[xEnd + 1],
          xty |-> rangeXty(xStart, ys, xEnd - xStart)]
    ELSE AccAddAll(AccEmpty(degree), xStart, ys, xEnd - xStart)

NewFitIntRange(xStart, xEnd, ys, degree) ==
    IF degree + 1 = 3
    THEN [N |-> xEnd - xStart, Degree |-> degree,
          xtx |-> getCachedXTX3(xStart, xEnd),
          xty |-> rangeXty(xStart, ys, xEnd - xStart)]
    ELSE AccAddAll(AccEmpty(degree), xStart, ys, xEnd - xStart)

\* ---------------------------------------------------------- span builder
\* the larger and the smaller of the residuals ys[i] - poly(i), i in lo..hi-1,
\* both starting from 0
RECURSIVE maxMinResiduals(_, _, _, _)
maxMinResiduals(poly, ys, lo, hi) ==
    IF lo >= hi THEN [max |-> Big(0), min |-> Big(0)]
    ELSE IF hi = lo + 1 THEN
        LET diff == BigSub(Float(ys[lo + 1]), evalPoly2(poly, lo))
        IN  [max |-> IF BigLt(Big(0), diff) THEN diff ELSE Big(0),
             min |-> IF BigLt(diff, Big(0)) THEN diff ELSE Big(0)]
    ELSE
        LET mid == (lo + hi) \div 2
            a   == maxMinResiduals(poly, ys, lo, mid)
            b   == maxMinResiduals(poly, ys, mid, hi)
        IN  [max |-> IF BigLt(a.max, b.max) THEN b.max ELSE a.max,
             min |-> IF BigLt(b.min, a.min) THEN b.min ELSE a.min]

BigPow2(k) == IF k < 16 THEN [h |-> 0, l |-> 2^k] ELSE [h |-> 2^(k - 16), l |-> 0]

\* as marginWidth, the bit length not rounded up to a power of two
marginWidthExact(margin) == BigBitLen(margin)

\* as marginWidth, width - 1 taken as 0 for a width of 0
marginWidthNoWrap(margin) ==
    LET width == BigBitLen(margin)
        lz    == IF width = 0 THEN 0 ELSE BigBitLen(U32(Big(width - 1)))
    IN  BigInt(U32(BigPow2(lz)))

marginWidth(margin) ==
    LET width == BigBitLen(margin)
        lz    == BigBitLen(U32(Big(width - 1)))
    IN  BigInt(U32(BigPow2(lz)))

memCost(poly, residualWidth, n) == 64 * (Len(poly) + 1) + residualWidth * n

\* as spanStat, the width kept as marginWidth returns it
spanStatUncapped(sp, poly, residualWidth) ==
    [sp EXCEPT !.poly = poly,
               !.residualWidth = residualWidth,
               !.mem = memCost(poly, residualWidth, sp.ft.N)]

\* updatePolyAndStat, lines 573-582, given the max and min of line 570
spanStat(sp, poly, residualWidth) ==
    [sp EXCEPT !.poly = poly,
               !.residualWidth = IF residualWidth > 32 THEN 32 ELSE residualWidth,
               !.mem = memCost(poly, IF residualWidth > 32 THEN 32 ELSE residualWidth,
                               sp.ft.N)]

\* as spanMargin, the width taken from the greatest residual alone
spanMarginMaxOnly(sp, mm) ==
    spanStat(sp, [sp.origPoly EXCEPT ![1] = BigAdd(@, mm.min)],
             marginWidth(FloatCeil(mm.max)))

spanMargin(sp, mm) ==
    spanStat(sp, [sp.origPoly EXCEPT ![1] = BigAdd(@, mm.min)],
             marginWidth(FloatCeil(BigSub(mm.max, mm.min))))

updatePolyAndStat(sp, ys) ==
    spanMargin(sp, maxMinResiduals(sp.origPoly, ys, sp.s, sp.e))

solve(sp, ys, kind) == [sp EXCEPT !.origPoly = FitSolve(sp.ft, ys, kind)]

newSpan(ys, kind, ft, s, e) ==
    updatePolyAndStat(
        solve([ft |-> ft, origPoly |-> <<>>, poly |-> <<>>,
               residualWidth |-> 0, mem |-> 0, s |-> s, e |-> e], ys, kind),
        ys)

mergeTwoSpan(ys, kind, a, b) ==
    updatePolyAndStat(
        solve([a EXCEPT !.ft = FitMerge(a.ft, b.ft), !.e = b.e], ys, kind), ys)

\* span.Copy leaves residualWidth at its zero value
spanCopy(sp) == [sp EXCEPT !.residualWidth = 0]

\* -------------------------------------------------------- span optimizer
\* Sequences are indexed from 1: element i of a Go slice is element i+1 here.
\* as initFittings, a fitting for every spanSize/2 samples
initFittingsHalf(n, spanSize) ==
    [k \in 1..((2 * n + spanSize - 1) \div spanSize) |->
        LET s == (k - 1) * (spanSize \div 2)
            e == IF s + (spanSize \div 2) > n THEN n ELSE s + (spanSize \div 2)
        IN  NewFit(s, e, polyDegree)]

initFittings(n, spanSize) ==
    [k \in 1..((n + spanSize - 1) \div spanSize) |->
        LET s == (k - 1) * spanSize
            e == IF s + spanSize > n THEN n ELSE s + spanSize
        IN  NewFit(s, e, polyDegree)]

RemoveAt(seq, k) == SubSeq(seq, 1, k - 1) \o SubSeq(seq, k + 1, Len(seq))

ReplaceAt(seq, k, v) == SubSeq(seq, 1, k - 1) \o <<v>> \o SubSeq(seq, k + 1, Len(seq))

\* as scanMerged, the pair at index 0 looked at too
RECURSIVE scanFromZero(_, _, _, _, _)
scanFromZero(spans, merged, i, maxI, maxReduced) ==
    IF i >= Len(merged) THEN [maxI |-> maxI, maxReduced |-> maxReduced]
    ELSE
        LET reduced == spans[i + 1].mem + spans[i + 2].mem - merged[i + 1].mem
        IN  IF maxReduced < reduced
            THEN scanFromZero(spans, merged, i + 1, i, reduced)
            ELSE scanFromZero(spans, merged, i + 1, maxI, maxReduced)

scanMergedFromZero(spans, merged, i, maxI, maxReduced) ==
    scanFromZero(spans, merged, i - 1, maxI, maxReduced)

\* as scanMerged, a later pair taken when it saves as much as the best before it
RECURSIVE scanMergedLast(_, _, _, _, _)
scanMergedLast(spans, merged, i, maxI, maxReduced) ==
    IF i >= Len(merged) THEN [maxI |-> maxI, maxReduced |-> maxReduced]
    ELSE
        LET reduced == spans[i + 1].mem + spans[i + 2].mem - merged[i + 1].mem
        IN  IF maxReduced <= reduced
            THEN scanMergedLast(spans, merged, i + 1, i, reduced)
            ELSE scanMergedLast(spans, merged, i + 1, maxI, maxReduced)

\* the scan for the adjacent pair whose merge saves most, from index 1
RECURSIVE scanMerged(_, _, _, _, _)
scanMerged(spans, merged, i, maxI, maxReduced) ==
    IF i >= Len(merged) THEN [maxI |-> maxI, maxReduced |-> maxReduced]
    ELSE
        LET reduced == spans[i + 1].mem + spans[i + 2].mem - merged[i + 1].mem
        IN  IF maxReduced < reduced
            THEN scanMerged(spans, merged, i + 1, i, reduced)
            ELSE scanMerged(spans, merged, i + 1, maxI, maxReduced)

\* as mergeLeft, merged[maxI-1] left as it is
mergeLeftSkipped(ys, kind, spans, merged, maxI) == merged

\* One iteration of the loop that commits a merge, lines 502-524:
\* merged[maxI-1] takes in spans[maxI+1],
mergeLeft(ys, kind, spans, merged, maxI) ==
    IF maxI > 0
    THEN ReplaceAt(merged, maxI, mergeTwoSpan(ys, kind, merged[maxI], spans[maxI + 2]))
    ELSE merged

\* spans[maxI] takes in merged[maxI+1] and becomes merged[maxI+1],
mergeRight(ys, kind, spans, merged, maxI) ==
    IF maxI < Len(merged) - 1
    THEN ReplaceAt(merged, maxI + 2,
                   mergeTwoSpan(ys, kind, spans[maxI + 1], merged[maxI + 2]))
    ELSE merged

\* as mergeShift, no element taken out of either list
mergeShiftKeep(spans, merged, maxI) ==
    [spans  |-> ReplaceAt(spans, maxI + 1, merged[maxI + 1]),
     merged |-> merged]

\* merged[maxI] becomes spans[maxI], and both lists lose an element
mergeShift(spans, merged, maxI) ==
    [spans  |-> RemoveAt(ReplaceAt(spans, maxI + 1, merged[maxI + 1]), maxI + 2),
     merged |-> RemoveAt(merged, maxI + 1)]

commitMerge(ys, kind, spans, merged, maxI) ==
    mergeShift(spans,
               mergeRight(ys, kind, spans, mergeLeft(ys, kind, spans, merged, maxI), maxI),
               maxI)

RECURSIVE mergeLoop(_, _, _, _)
mergeNext(ys, kind, st) == mergeLoop(ys, kind, st.spans, st.merged)

mergeStep(ys, kind, spans, merged, best) ==
    IF best.maxReduced > 0
    THEN mergeNext(ys, kind, commitMerge(ys, kind, spans, merged, best.maxI))
    ELSE spans

mergeLoop(ys, kind, spans, merged) ==
    IF Len(merged) = 0 THEN spans
    ELSE mergeStep(ys, kind, spans, merged, scanMerged(spans, merged, 1, 0, -1))

\* the start index of the span built from fts[k]
RECURSIVE fitStart(_, _)
fitStart(fts, k) == IF k = 1 THEN 0 ELSE fitStart(fts, k - 1) + fts[k - 1].N

\* lines 459-530: the would-be merges of every adjacent pair, then the loop
mergeAll(ys, kind, spans) ==
    mergeLoop(ys, kind, spans,
              [k \in 1..(Len(spans) - 1) |->
                  mergeTwoSpan(ys, kind, spanCopy(spans[k]), spans[k + 1])])

findMinFittingsNew(ys, kind, fts) ==
    mergeAll(ys, kind,
             [k \in 1..Len(fts) |->
                 newSpan(ys, kind, fts[k], fitStart(fts, k), fitStart(fts, k) + fts[k].N)])

\* lines 449-457: a span for every fitting
firstSpans(ys, kind, fts) ==
    [k \in 1..Len(fts) |->
        newSpan(ys, kind, fts[k], fitStart(fts, k), fitStart(fts, k) + fts[k].N)]

\* lines 459-464: a copy of every span but the last, merged with the span after it
firstMerged(ys, kind, spans) ==
    [k \in 1..(Len(spans) - 1) |->
        mergeTwoSpan(ys, kind, spanCopy(spans[k]), spans[k + 1])]

\* lines 449-464 for the span objects: spans[i] is object i + 1, and merged[i] the
\* object Copy makes, numbered after them
firstIds(n) ==
    [spans |-> [k \in 1..n |-> k], merged |-> [k \in 1..(n - 1) |-> n + k]]

\* lines 514-524 for the span objects: merged[maxI+1] = spans[maxI],
\* spans[maxI] = merged[maxI], and both lists lose an element
shiftIds(ids, maxI) ==
    [spans  |-> RemoveAt(ReplaceAt(ids.spans, maxI + 1, ids.merged[maxI + 1]), maxI + 2),
     merged |-> RemoveAt(IF maxI < Len(ids.merged) - 1
                         THEN ReplaceAt(ids.merged, maxI + 2, ids.spans[maxI + 1])
                         ELSE ids.merged,
                         maxI + 1)]

\* initFittings line 403 and lines 459-464 for the sums of the fittings: a fitting
\* of the samples of each span, and for merged[i] a copy of that of spans[i] with
\* that of spans[i+1] merged in
spanFts(ys, spans) ==
    [k \in 1..Len(spans) |->
        AccNewFit(spans[k].s, SubSeq(ys, spans[k].s + 1, spans[k].e), polyDegree)]

mergedFts(fts) == [k \in 1..(Len(fts) - 1) |-> AccMerge(fts[k], fts[k + 1])]

firstFts(ys, spans) ==
    [spans |-> spanFts(ys, spans), merged |-> mergedFts(spanFts(ys, spans))]

\* lines 504-524 for the sums of the fittings, by the Merge calls of mergeTwoSpan:
\* merged[maxI-1] takes in spans[maxI+1], spans[maxI] takes in merged[maxI+1]
\* and becomes merged[maxI+1], merged[maxI] becomes spans[maxI]
ftsLeft(fts, maxI) ==
    IF maxI > 0
    THEN ReplaceAt(fts.merged, maxI, AccMerge(fts.merged[maxI], fts.spans[maxI + 2]))
    ELSE fts.merged

ftsRight(fts, merged, maxI) ==
    IF maxI < Len(merged) - 1
    THEN ReplaceAt(merged, maxI + 2, AccMerge(fts.spans[maxI + 1], merged[maxI + 2]))
    ELSE merged

shiftFts(fts, maxI) ==
    [spans  |-> RemoveAt(ReplaceAt(fts.spans, maxI + 1, fts.merged[maxI + 1]), maxI + 2),
     merged |-> RemoveAt(ftsRight(fts, ftsLeft(fts, maxI), maxI), maxI + 1)]

\* -------------------------------------------------------- segment encoder
\* as alignUp, resI left where the span before ended
alignUpNone(resI, width) == resI

\* as alignUp, resI moved up to a multiple of 8 whatever the width
alignUpByte(resI, width) ==
    IF width > 0
    THEN LET r == resI + 7 IN r - (r % 8)
    ELSE resI

\* newSeg, lines 358-361: resI moved up to a multiple of the width
alignUp(resI, width) ==
    IF width > 0
    THEN LET r == resI + width - 1 IN r - (r % width)
    ELSE resI

\* resI when span k starts to write its residuals, after the alignment
RECURSIVE resStart(_, _)
resStart(spans, k) ==
    IF k = 1 THEN alignUp(0, spans[1].residualWidth)
    ELSE alignUp(resStart(spans, k - 1)
                   + (spans[k - 1].e - spans[k - 1].s) * spans[k - 1].residualWidth,
                 spans[k].residualWidth)

\* as residualOf, from the polynomial before it is shifted down by the least residual
residualOfUnshifted(nums, sp, j) ==
    U32(BigSub(nums[j + 1], FloatToInt64(evalPoly2(sp.origPoly, j))))

\* the residual the encoder stores for element j of the span
residualOf(nums, sp, j) ==
    U32(BigSub(nums[j + 1], FloatToInt64(evalPoly2(sp.poly, j))))

\* the bits that words[resI>>6] |= uint64(d) << (resI & 63) sets, as positions
\* in the segment's stream
orBits(d, resI) ==
    {resI + b : b \in {c \in BigBits(d) : (resI % wordBits) + c < wordBits}}

joinPolys(spans) ==
    [k \in 1..(polyCoefCnt * Len(spans)) |->
        spans[((k - 1) \div polyCoefCnt) + 1].poly[((k - 1) % polyCoefCnt) + 1]]

\* the residual bits of the segment, lines 372-384
segBits(nums, spans, base) ==
    UNION {
        UNION { orBits(residualOf(nums, spans[k], j),
                       base[k] + (j - spans[k].s) * spans[k].residualWidth)
                : j \in spans[k].s..(spans[k].e - 1) }
        : k \in 1..Len(spans) }

\* as encodeSpans, the offset being the position of the span's first residual
encodeSpansUnbiased(nums, start, spans, base, nWords) ==
    [bm          |-> {(spans[k].e - 1) \div 16 : k \in 1..Len(spans)},
     polynomials |-> joinPolys(spans),
     configs     |-> [k \in 1..Len(spans) |->
                        (base[k] + start) * 256 + spans[k].residualWidth],
     words       |-> LET bits == segBits(nums, spans, base)
                     IN  [w \in 1..nWords |->
                            {b % wordBits : b \in {x \in bits : x \div wordBits = w - 1}}],
     spans       |-> [k \in 1..Len(spans) |->
                        [s |-> spans[k].s, e |-> spans[k].e,
                         residualWidth |-> spans[k].residualWidth,
                         origPoly |-> spans[k].origPoly, poly |-> spans[k].poly,
                         resI |-> base[k] + start]]]

\* newSeg, lines 343-389, given the spans of line 341
encodeSpans(nums, start, spans, base, nWords) ==
    [bm          |-> {(spans[k].e - 1) \div 16 : k \in 1..Len(spans)},
     polynomials |-> joinPolys(spans),
     configs     |-> [k \in 1..Len(spans) |->
                        (base[k] + start - spans[k].s * spans[k].residualWidth) * 256
                          + spans[k].residualWidth],
     words       |-> LET bits == segBits(nums, spans, base)
                     IN  [w \in 1..nWords |->
                            {b % wordBits : b \in {x \in bits : x \div wordBits = w - 1}}],
     spans       |-> [k \in 1..Len(spans) |->
                        [s |-> spans[k].s, e |-> spans[k].e,
                         residualWidth |-> spans[k].residualWidth,
                         origPoly |-> spans[k].origPoly, poly |-> spans[k].poly,
                         resI |-> base[k] + start]]]

layoutSpans(nums, start, spans) ==
    encodeSpans(nums, start, spans,
                [k \in 1..Len(spans) |-> resStart(spans, k)],
                (resStart(spans, Len(spans))
                   + (spans[Len(spans)].e - spans[Len(spans)].s)
                       * spans[Len(spans)].residualWidth + 63) \div wordBits)

\* as newSeg, starting from spans of 8 elements
newSegHalfSpans(nums, kind, start) ==
    layoutSpans(nums, start, findMinFittingsNew(nums, kind, initFittings(Len(nums), 8)))

newSeg(nums, kind, start) ==
    layoutSpans(nums, start, findMinFittingsNew(nums, kind, initFittings(Len(nums), minSpan)))

\* ----------------------------------------------------------- SlimArray
NoArray == [N |-> Big(0), Rank |-> <<>>, Bitmap |-> <<>>, Polynomials |-> <<>>,
            Configs |-> <<>>, Residuals |-> <<>>]

\* as appendSeg, the rank counting the spans of the segment being added too
appendSegOwnSpans(sm, seg) ==
    LET l == Len(sm.Rank)
        r == (IF l > 0 THEN sm.Rank[l] + Cardinality(sm.Bitmap[l]) ELSE 0)
               + Cardinality(seg.bm)
    IN  [sm EXCEPT !.Bitmap = Append(@, seg.bm),
                   !.Rank = Append(@, r),
                   !.Polynomials = @ \o seg.polynomials,
                   !.Configs = @ \o seg.configs,
                   !.Residuals = @ \o seg.words,
                   !.spans = Append(@, seg.spans)]

\* addSeg, lines 312-324, given the segment of line 310
appendSeg(sm, seg) ==
    LET l == Len(sm.Rank)
        r == IF l > 0 THEN sm.Rank[l] + Cardinality(sm.Bitmap[l]) ELSE 0
    IN  [sm EXCEPT !.Bitmap = Append(@, seg.bm),
                   !.Rank = Append(@, r),
                   !.Polynomials = @ \o seg.polynomials,
                   !.Configs = @ \o seg.configs,
                   !.Residuals = @ \o seg.words,
                   !.spans = Append(@, seg.spans)]

addSeg(sm, nums, kind) == appendSeg(sm, newSeg(nums, kind, Len(sm.Residuals) * 64))

\* as addSegs, without the segment of the elements left over
RECURSIVE addSegsFull(_, _, _)
addSegsFull(pa, nums, kind) ==
    IF Len(nums) >= segSize
    THEN addSegsFull(addSeg(pa, SubSeq(nums, 1, segSize), kind),
                     SubSeq(nums, segSize + 1, Len(nums)), kind)
    ELSE pa

RECURSIVE addSegs(_, _, _)
addSegs(pa, nums, kind) ==
    IF Len(nums) > segSize
    THEN addSegs(addSeg(pa, SubSeq(nums, 1, segSize), kind),
                 SubSeq(nums, segSize + 1, Len(nums)), kind)
    ELSE IF Len(nums) > 0 THEN addSeg(pa, nums, kind) ELSE pa

\* the SlimArray under construction, and with it the spans that newSeg has laid
\* out so far, segment by segment
newArray(n) ==
    [N |-> I32(Big(n)), Rank |-> <<>>, Bitmap |-> <<>>, Polynomials |-> <<>>,
     Configs |-> <<>>, Residuals |-> <<>>, spans |-> <<>>]

\* as buildU32, without the word after the last residual
buildU32NoGuard(nums, kind) == addSegs(newArray(Len(nums)), nums, kind)

\* NewU32, lines 192-211
buildU32(nums, kind) ==
    LET pa == addSegs(newArray(Len(nums)), nums, kind)
    IN  [pa EXCEPT !.Residuals = Append(@, {})]

\* the SlimArray that NewU32 returns
asArray(pa) ==
    [N |-> pa.N, Rank |-> pa.Rank, Bitmap |-> pa.Bitmap, Polynomials |-> pa.Polynomials,
     Configs |-> pa.Configs, Residuals |-> pa.Residuals]

NewU32(nums, kind) == asArray(buildU32(nums, kind))

\* a read that indexes outside an array panics
Panic == [panic |-> TRUE, val |-> Big(0)]

\* as getLocate, the bit of the 16 elements around i counted too
getLocateInclusive(sm, i) ==
    LET bitmapI == i \div (2^segSizeShift)
    IN  IF bitmapI < 0 \/ bitmapI >= Len(sm.Bitmap)
        THEN [panic |-> TRUE, j |-> 0, spanIdx |-> 0]
        ELSE
        LET spansBitmap == sm.Bitmap[bitmapI + 1]
            rank        == sm.Rank[bitmapI + 1]
            j           == i % (segSizeMask + 1)
            bm          == spansBitmap \cap Mask((j \div 16) + 1)
        IN  [panic |-> FALSE, j |-> j, spanIdx |-> rank + Cardinality(bm)]

\* Get, lines 223-232: the segment of i and the span of i in it
getLocate(sm, i) ==
    LET bitmapI == i \div (2^segSizeShift)
    IN  IF bitmapI < 0 \/ bitmapI >= Len(sm.Bitmap)
        THEN [panic |-> TRUE, j |-> 0, spanIdx |-> 0]
        ELSE
        LET spansBitmap == sm.Bitmap[bitmapI + 1]
            rank        == sm.Rank[bitmapI + 1]
            j           == i % (segSizeMask + 1)
            bm          == spansBitmap \cap Mask(j \div 16)
        IN  [panic |-> FALSE, j |-> j, spanIdx |-> rank + Cardinality(bm)]

\* Get, lines 236-251: the polynomial's value plus the stored residual
getDecode(sm, j, spanIdx) ==
    LET p == spanIdx * polyCoefCnt
    IN  IF p + 3 > Len(sm.Polynomials) \/ spanIdx >= Len(sm.Configs) THEN Panic
        ELSE
        LET v             == FloatToInt64(
                               evalPoly2(SubSeq(sm.Polynomials, p + 1, p + 3), j))
            config        == sm.Configs[spanIdx + 1]
            residualWidth == config % 256
            offset        == config \div 256
            resBitIdx     == offset + j * residualWidth
            wordI         == resBitIdx \div wordBits
        IN  IF wordI < 0 \/ wordI >= Len(sm.Residuals) THEN Panic
            ELSE
            LET d == {b - (resBitIdx % wordBits) :
                        b \in {c \in sm.Residuals[wordI + 1] : c >= resBitIdx % wordBits}}
            IN  [panic |-> FALSE,
                 val   |-> U32(BigAdd(v, BitsToBig(d \cap Mask(residualWidth))))]

\* Get, lines 240-248: the index of the word of Residuals that the read loads
residualWord(sm, j, spanIdx) ==
    ((sm.Configs[spanIdx + 1] \div 256) + j * (sm.Configs[spanIdx + 1] % 256)) \div wordBits

Get(sm, i) ==
    LET at == getLocate(sm, i)
    IN  IF at.panic THEN Panic ELSE getDecode(sm, at.j, at.spanIdx)

SlimLen(sm) == sm.N

\* size.Of(sm) of openacid/low: the bytes the arrays hold
sizeOf(sm) ==
    8 * (Len(sm.Rank) + Len(sm.Bitmap) + Len(sm.Polynomials)
           + Len(sm.Configs) + Len(sm.Residuals))

RECURSIVE sumWidths(_, _)
sumWidths(sm, cnt) ==
    IF cnt = 0 THEN 0 ELSE sumWidths(sm, cnt - 1) + (sm.Configs[cnt] % 256)

Stat(sm) ==
    LET segCnt   == Len(sm.Bitmap)
        totalmem == sizeOf(sm)
        spanCnt0 == Len(sm.Polynomials) \div 3
        memWords == Len(sm.Residuals) * 8
        widthAvg == sumWidths(sm, spanCnt0)
        n        == IF BigInt(SlimLen(sm)) = 0 THEN 1 ELSE BigInt(SlimLen(sm))
        spanCnt  == IF spanCnt0 = 0 THEN 1 ELSE spanCnt0
    IN  [seg_cnt   |-> segCnt,
         elt_width |-> widthAvg \div spanCnt,
         mem_total |-> totalmem,
         mem_elts  |-> memWords,
         bits_elt  |-> (totalmem * 8) \div n,
         spans_seg |-> (spanCnt * 1000) \div (segCnt * 1000 + 1),
         span_cnt  |-> spanCnt,
         n         |-> sm.N]

\* ------------------------------------------------------------ SlimBytes
MaxInt32 == [h |-> (LimbBase \div 2) - 1, l |-> LimbBase - 1]

RECURSIVE packedLen(_, _)
packedLen(recs, k) == IF k = 0 THEN 0 ELSE packedLen(recs, k - 1) + Len(recs[k])

RECURSIVE packRecords(_, _)
packRecords(recs, k) == IF k = 0 THEN <<>> ELSE packRecords(recs, k - 1) \o recs[k]

\* The argument of NewBytes is either a list of records that is written out
\* (bulk = FALSE, recs), or stands for count records of each bytes apiece
\* (bulk = TRUE), one of count and each being small; such a collection is too big
\* to write out, and of the SlimBytes made of it the model keeps Positions.N alone.
recordCount(in) == IF in.bulk THEN in.count ELSE Big(Len(in.recs))

recordBytes(in) ==
    IF in.bulk
    THEN IF in.count.h = 0 THEN BigMulInt(in.each, in.count.l)
         ELSE BigMulInt(in.count, BigInt(in.each))
    ELSE Big(packedLen(in.recs, Len(in.recs)))

\* the nil *SlimBytes
NoBytes == [nil |-> TRUE, Positions |-> NoArray, Records |-> <<>>, elided |-> FALSE]

\* as NewBytes, without the offset of the end of the last record
NewBytesNoEnd(in, kind) ==
    LET n    == recordCount(in)
        size == recordBytes(in)
    IN  IF BigLt(MaxInt32, n) THEN [sb |-> NoBytes, err |-> "TooManyRows"]
        ELSE IF BigLt(U32Max, size) THEN [sb |-> NoBytes, err |-> "BytesTooLarge"]
        ELSE IF in.bulk
        THEN [sb  |-> [nil       |-> FALSE,
                       Positions |-> [NoArray EXCEPT !.N = I32(n)],
                       Records   |-> <<>>,
                       elided    |-> TRUE],
              err |-> "nil"]
        ELSE
        LET pos == [k \in 1..Len(in.recs) |-> U32(Big(packedLen(in.recs, k - 1)))]
        IN  [sb  |-> [nil       |-> FALSE,
                      Positions |-> NewU32(pos, kind),
                      Records   |-> packRecords(in.recs, Len(in.recs)),
                      elided    |-> FALSE],
             err |-> "nil"]

\* as NewBytes, the limits themselves refused
NewBytesStrict(in, kind) ==
    LET n    == recordCount(in)
        size == recordBytes(in)
    IN  IF BigLe(MaxInt32, n) THEN [sb |-> NoBytes, err |-> "TooManyRows"]
        ELSE IF BigLe(U32Max, size) THEN [sb |-> NoBytes, err |-> "BytesTooLarge"]
        ELSE IF in.bulk
        THEN [sb  |-> [nil       |-> FALSE,
                       Positions |-> [NoArray EXCEPT !.N = I32(BigAdd(n, Big(1)))],
                       Records   |-> <<>>,
                       elided    |-> TRUE],
              err |-> "nil"]
        ELSE
        LET pos == [k \in 1..(Len(in.recs) + 1) |-> U32(Big(packedLen(in.recs, k - 1)))]
        IN  [sb  |-> [nil       |-> FALSE,
                      Positions |-> NewU32(pos, kind),
                      Records   |-> packRecords(in.recs, Len(in.recs)),
                      elided    |-> FALSE],
             err |-> "nil"]

NewBytes(in, kind) ==
    LET n    == recordCount(in)
        size == recordBytes(in)
    IN  IF BigLt(MaxInt32, n) THEN [sb |-> NoBytes, err |-> "TooManyRows"]
        ELSE IF BigLt(U32Max, size) THEN [sb |-> NoBytes, err |-> "BytesTooLarge"]
        ELSE IF in.bulk
        THEN [sb  |-> [nil       |-> FALSE,
                       Positions |-> [NoArray EXCEPT !.N = I32(BigAdd(n, Big(1)))],
                       Records   |-> <<>>,
                       elided    |-> TRUE],
              err |-> "nil"]
        ELSE
        LET pos == [k \in 1..(Len(in.recs) + 1) |-> U32(Big(packedLen(in.recs, k - 1)))]
        IN  [sb  |-> [nil       |-> FALSE,
                      Positions |-> NewU32(pos, kind),
                      Records   |-> packRecords(in.recs, Len(in.recs)),
                      elided    |-> FALSE],
             err |-> "nil"]

NoSlice == [panic |-> TRUE, val |-> <<>>]

\* as sliceRecords, the end of the slice cut down to the bytes there are
sliceRecordsClipped(b, byteOffset, byteEnd) ==
    IF byteOffset.panic \/ byteEnd.panic THEN NoSlice
    ELSE IF BigLt(byteEnd.val, byteOffset.val) THEN NoSlice
    ELSE [panic |-> FALSE,
          val   |-> SubSeq(b.Records, BigInt(byteOffset.val) + 1,
                           IF BigLt(Big(Len(b.Records)), byteEnd.val)
                           THEN Len(b.Records) ELSE BigInt(byteEnd.val))]

\* b.Records[byteOffset:byteEnd] panics unless byteOffset <= byteEnd <= cap(b.Records);
\* NewBytes makes Records with a capacity of exactly its length
sliceRecords(b, byteOffset, byteEnd) ==
    IF byteOffset.panic \/ byteEnd.panic THEN NoSlice
    ELSE IF BigLt(byteEnd.val, byteOffset.val)
            \/ BigLt(Big(Len(b.Records)), byteEnd.val) THEN NoSlice
    ELSE [panic |-> FALSE,
          val   |-> SubSeq(b.Records, BigInt(byteOffset.val) + 1, BigInt(byteEnd.val))]

\* as SlimBytesGet, the record ending where the next record ends
SlimBytesGetNextEnd(b, i) ==
    sliceRecords(b, Get(b.Positions, i), Get(b.Positions, i + 2))

SlimBytesGet(b, i) == sliceRecords(b, Get(b.Positions, i), Get(b.Positions, i + 1))

\* ------------------------------------------------------------- inputs
Vals == {Big(0), Big(1), U32Max}

RECURSIVE SeqsUpTo(_, _)
SeqsUpTo(S, n) ==
    IF n = 0 THEN {<<>>}
    ELSE LET shorter == SeqsUpTo(S, n - 1)
         IN  shorter \cup {Append(q, v) : q \in {x \in shorter : Len(x) = n - 1}, v \in S}

PatKinds == {"ramp", "saw", "step", "alt", "top", "hill", "mix"}

PatVal(p, i) ==
    CASE p = "ramp" -> Big(3 * i)
      [] p = "saw"  -> Big(5 * i + ((i * i) % 4))
      [] p = "step" -> IF i < 16 THEN Big(7) ELSE U32Max
      [] p = "alt"  -> IF i % 2 = 0 THEN U32Max ELSE Big(0)
      [] p = "top"  -> BigSub(U32Max, Big(i % 3))
      [] p = "hill" -> Big(((i * (100 - i)) % 1000) + ((i % 16) * (i \div 16)))
      [] p = "mix"  -> IF i < 16 THEN Big(i % 2)
                       ELSE IF i % 2 = 0 THEN U32Max ELSE Big(0)

Pattern(p, n) == [i \in 1..n |-> PatVal(p, i - 1)]

PatLens == {4, 15, 16, 17, 32, 33, 50}

\* a full segment, and a segment and one element more
LongInputs == {Pattern("ramp", segSize), Pattern("step", segSize + 1)}

Inputs ==
    SeqsUpTo(Vals, MaxLen)
      \cup {Pattern(p, n) : p \in PatKinds, n \in PatLens}
      \cup LongInputs

\* longest record and longest list of records that are enumerated
MaxRecLen == 2
MaxRecs == 2

ByteVals == {97, 98}

TestRecords ==
    << <<102, 111, 111>>, <<98, 97, 114>>, <<>>, <<104, 101, 108, 108, 111>>,
       <<120, 112>>, <<115, 101, 101, 121, 111, 117>> >>

PatRecord(i) == [k \in 1..(i % 4) |-> 97 + ((i + k) % 3)]

Explicit(recs) == [bulk |-> FALSE, recs |-> recs, count |-> Big(0), each |-> Big(0)]

Bulk(count, each) == [bulk |-> TRUE, recs |-> <<>>, count |-> count, each |-> each]

Pow31 == [h |-> LimbBase \div 2, l |-> 0]
Pow32 == [h |-> LimbBase, l |-> 0]

BytesInputs ==
    {Explicit(recs) : recs \in SeqsUpTo(SeqsUpTo(ByteVals, MaxRecLen), MaxRecs)}
      \cup {Explicit(TestRecords)}
      \cup {Explicit([i \in 1..n |-> PatRecord(i)]) : n \in {16, 17, 40}}
      \cup {Explicit([i \in 1..n |-> <<>>]) : n \in {3, 20}}
      \cup {Bulk(c, Big(e)) : c \in {MaxInt32, Pow31, BigAdd(Pow31, Big(1))}, e \in 0..3}
      \cup {Bulk(Big(c), e) : c \in 1..2, e \in {MaxInt32, Pow31, U32Max, Pow32}}

\* the indexes a reader asks for
ReadIdx == {-1, 0, 1, 2, 3, 15, 16, 17, 1023, 1024, 1025}

\* ---------------------------------------------------------- state machine
VARIABLES
    nums,     \* the input of NewU32
    kind,     \* the curve the solver fits
    pc,       \* "new" before NewU32 has run, "built" after
    sa,       \* the SlimArray
    enc,      \* per segment, the spans newSeg emitted and where it put their residuals
    rpc,      \* per reader: "idle", or "located" between the two halves of Get
    rloc,     \* per reader: the index, in-segment index and span of the Get under way
    ret,      \* per reader: what its last call returned
    records,  \* the input of NewBytes
    bpc,      \* "new" before NewBytes has run, "built" after
    sb,       \* the SlimBytes
    berr,     \* the error NewBytes returned
    bret,     \* what the last SlimBytes.Get returned
    optYs,    \* the segment findMinFittingsNew works on
    optPc,    \* "idle", "loop" at the head of the merge loop, "done" after the return
    optSpans, \* findMinFittingsNew's spans
    optMerged,\* findMinFittingsNew's merged
    optIds,   \* which span object each element of spans and of merged points to
    optFts,   \* the sums of the fitting of each element of spans and of merged
    optLast,  \* maxI and maxReduced of the last scan
    optMerges,\* the merges committed so far
    mwIn,     \* the margin marginWidth is called with
    mwPc,     \* "idle", "new", "width" after marginWidth, "span" after the span builder
    mwOut,    \* the width marginWidth returned, then the width the span builder stored
    pfStart, \* the x of the first point of the fits
    pfYs,    \* the ys of the points
    pfDegree, \* the degree of the fits
    pfPc,    \* "idle", "new", "range" after NewFitIntRange, "fits", "merged"
    pfF,     \* the fit f of f.Merge(b)
    pfB,     \* the fit b of f.Merge(b)
    pfInt    \* the fit NewFitIntRange returned

avars == <<nums, pc, sa, enc, rpc, rloc, ret>>
bvars == <<records, bpc, sb, berr, bret>>
ovars == <<optYs, optPc, optSpans, optMerged, optIds, optFts, optLast, optMerges>>
mvars == <<mwIn, mwPc, mwOut>>
fvars == <<pfStart, pfYs, pfDegree, pfPc, pfF, pfB, pfInt>>
wvars == <<ovars, mvars, fvars>>
vars == <<kind, avars, bvars, wvars>>

Readers == {1, 2}

NoLoc == [i |-> 0, j |-> 0, spanIdx |-> 0]
NoRet == [op |-> "none"]

InitWith(ins, recs) ==
    /\ nums \in ins
    /\ kind \in SolveKinds
    /\ pc = "new"
    /\ sa = NoArray
    /\ enc = <<>>
    /\ rpc = [r \in Readers |-> "idle"]
    /\ rloc = [r \in Readers |-> NoLoc]
    /\ ret = [r \in Readers |-> NoRet]
    /\ records \in recs
    /\ bpc = "new"
    /\ sb = NoBytes
    /\ berr = "nil"
    /\ bret = NoRet

NoScan == [maxI |-> 0, maxReduced |-> -1]

\* findMinFittingsNew not running
OptIdle ==
    /\ optYs = <<>>
    /\ optPc = "idle"
    /\ optSpans = <<>>
    /\ optMerged = <<>>
    /\ optIds = [spans |-> <<>>, merged |-> <<>>]
    /\ optFts = [spans |-> <<>>, merged |-> <<>>]
    /\ optLast = NoScan
    /\ optMerges = 0

\* marginWidth not called
WidthIdle ==
    /\ mwIn = Big(0)
    /\ mwPc = "idle"
    /\ mwOut = 0

\* no fit under construction
NoFit == [N |-> 0, Degree |-> 0, xtx |-> <<>>, xty |-> <<>>]

FitIdle ==
    /\ pfStart = 0
    /\ pfYs = <<>>
    /\ pfDegree = 0
    /\ pfPc = "idle"
    /\ pfF = NoFit
    /\ pfB = NoFit
    /\ pfInt = NoFit

Init == InitWith(Inputs, {Explicit(<<>>)}) /\ OptIdle /\ WidthIdle /\ FitIdle

Build ==
    /\ pc = "new"
    /\ \E pa \in {buildU32(nums, kind)} : sa' = asArray(pa) /\ enc' = pa.spans
    /\ pc' = "built"
    /\ UNCHANGED <<nums, kind, rpc, rloc, ret, bvars, wvars>>

\* the first half of Get(i)
Locate(r, i) ==
    /\ pc = "built"
    /\ rpc[r] = "idle"
    /\ i <= Len(nums) + 1
    /\ LET at == getLocate(sa, i)
       IN  IF at.panic
           THEN /\ ret' = [ret EXCEPT ![r] = [op |-> "Get", i |-> i, res |-> Panic]]
                /\ UNCHANGED <<rpc, rloc>>
           ELSE /\ rpc' = [rpc EXCEPT ![r] = "located"]
                /\ rloc' = [rloc EXCEPT ![r] = [i |-> i, j |-> at.j, spanIdx |-> at.spanIdx]]
                /\ ret' = [ret EXCEPT ![r] = NoRet]
    /\ UNCHANGED <<nums, kind, pc, sa, enc, bvars, wvars>>

\* the second half of Get(i)
Decode(r) ==
    /\ rpc[r] = "located"
    /\ ret' = [ret EXCEPT ![r] = [op |-> "Get", i |-> rloc[r].i,
                                  res |-> getDecode(sa, rloc[r].j, rloc[r].spanIdx)]]
    /\ rpc' = [rpc EXCEPT ![r] = "idle"]
    /\ rloc' = [rloc EXCEPT ![r] = NoLoc]
    /\ UNCHANGED <<nums, kind, pc, sa, enc, bvars, wvars>>

ReadLen(r) ==
    /\ pc = "built"
    /\ rpc[r] = "idle"
    /\ ret' = [ret EXCEPT ![r] = [op |-> "Len", res |-> SlimLen(sa)]]
    /\ UNCHANGED <<nums, kind, pc, sa, enc, rpc, rloc, bvars, wvars>>

\* as ReadStat, the count that Stat divides by written to the array
ReadStatStoring(r) ==
    /\ pc = "built"
    /\ rpc[r] = "idle"
    /\ ret' = [ret EXCEPT ![r] = [op |-> "Stat", res |-> Stat(sa)]]
    /\ sa' = [sa EXCEPT !.N = IF BigInt(@) = 0 THEN Big(1) ELSE @]
    /\ UNCHANGED <<nums, kind, pc, enc, rpc, rloc, bvars, wvars>>

ReadStat(r) ==
    /\ pc = "built"
    /\ rpc[r] = "idle"
    /\ ret' = [ret EXCEPT ![r] = [op |-> "Stat", res |-> Stat(sa)]]
    /\ UNCHANGED <<nums, kind, pc, sa, enc, rpc, rloc, bvars, wvars>>

Next ==
    \/ Build
    \/ \E i \in ReadIdx : Locate(1, i)
    \/ Decode(1)
    \/ ReadLen(1)
    \/ ReadStat(1)

Spec == Init /\ [][Next]_vars

\* ------------------------------------------------------ the byte records
InitBytes == InitWith({<<>>}, BytesInputs) /\ OptIdle /\ WidthIdle /\ FitIdle

BuildBytes ==
    /\ bpc = "new"
    /\ LET out == NewBytes(records, kind)
       IN  sb' = out.sb /\ berr' = out.err
    /\ bpc' = "built"
    /\ UNCHANGED <<kind, avars, wvars, records, bret>>

BytesGet(i) ==
    /\ bpc = "built"
    /\ berr = "nil"
    /\ ~sb.elided
    /\ i <= Len(records.recs) + 2
    /\ bret' = [op |-> "Get", i |-> i, res |-> SlimBytesGet(sb, i)]
    /\ UNCHANGED <<kind, avars, wvars, records, bpc, sb, berr>>

\* b.Positions.Len()
PositionsLen ==
    /\ bpc = "built"
    /\ berr = "nil"
    /\ bret' = [op |-> "Len", res |-> SlimLen(sb.Positions)]
    /\ UNCHANGED <<kind, avars, wvars, records, bpc, sb, berr>>

NextBytes ==
    \/ BuildBytes
    \/ \E i \in ReadIdx \cup {4, 5, 6, 7} : BytesGet(i)
    \/ PositionsLen

SpecBytes == InitBytes /\ [][NextBytes]_vars

\* ----------------------------------------------------- the merge loop
\* findMinFittingsNew taken one iteration of its loop at a time
MergeLens == {16, 17, 32, 33, 48, 50, 64, 80, 100}

ShortMergeInputs == {Pattern(p, n) : p \in PatKinds, n \in MergeLens}

\* and a full segment of values next to 2^32
MergeInputs == ShortMergeInputs \cup {Pattern("top", segSize)}

\* lines 445-464: the state when the loop is first reached
InitMergeWith(ins) ==
    /\ InitWith({<<>>}, {Explicit(<<>>)})
    /\ WidthIdle
    /\ FitIdle
    /\ optYs \in ins
    /\ optPc = "loop"
    /\ optSpans = firstSpans(optYs, kind, initFittings(Len(optYs), minSpan))
    /\ optMerged = firstMerged(optYs, kind, optSpans)
    /\ optIds = firstIds(Len(optSpans))
    /\ optFts = firstFts(optYs, optSpans)
    /\ optLast = NoScan
    /\ optMerges = 0

\* an iteration that commits a merge, lines 466-524
MergeCommit ==
    /\ optPc = "loop"
    /\ Len(optMerged) > 0
    /\ \E best \in {scanMerged(optSpans, optMerged, 1, 0, -1)} :
          /\ best.maxReduced > 0
          /\ \E st \in {commitMerge(optYs, kind, optSpans, optMerged, best.maxI)} :
                /\ optSpans' = st.spans
                /\ optMerged' = st.merged
          /\ optIds' = shiftIds(optIds, best.maxI)
          /\ optFts' = shiftFts(optFts, best.maxI)
          /\ optLast' = best
    /\ optMerges' = optMerges + 1
    /\ UNCHANGED <<kind, avars, bvars, mvars, fvars, optYs, optPc>>

\* the loop left, at line 466 or by the break of line 528, and spans returned
MergeReturn ==
    /\ optPc = "loop"
    /\ \E best \in {scanMerged(optSpans, optMerged, 1, 0, -1)} :
          /\ Len(optMerged) = 0 \/ best.maxReduced <= 0
          /\ optLast' = best
    /\ optPc' = "done"
    /\ UNCHANGED <<kind, avars, bvars, mvars, fvars, optYs, optSpans, optMerged, optIds,
                   optFts, optMerges>>

NextMerge == MergeCommit \/ MergeReturn

InitMerge == InitMergeWith(MergeInputs)

SpecMerge == InitMerge /\ [][NextMerge]_vars

\* The merge loop with its iterations taken in the end: the loop is sequential
\* code, so from its head it goes on.  An iteration either commits a merge, which
\* adds one to optMerges, or leaves the loop, which sets optPc to "done" (the if and
\* else of lines 502-529, so one of the two can always run); LoopAdvance is those
\* two outcomes told by the variables they change.
InitMergeLive == InitMergeWith(ShortMergeInputs)

LoopAdvance ==
    /\ optPc = "loop"
    /\ \/ optMerges' = optMerges + 1 /\ optPc' = optPc
       \/ optPc' = "done" /\ optMerges' = optMerges

SpecMergeLive ==
    InitMergeLive /\ [][NextMerge]_vars /\ WF_<<optPc, optMerges>>(LoopAdvance)

\* ------------------------------------------------------ the width of a span
\* the margins marginWidth is called with: 0, and 2^k - 1, 2^k and 2^k + 1 up to
\* 2^MaxMarginBits
MaxMarginBits == 40

Margins ==
    {Big(0)} \cup UNION {{BigSub(BigPow2(k), Big(1)), BigPow2(k), BigAdd(BigPow2(k), Big(1))}
                          : k \in 0..MaxMarginBits}

InitWidth ==
    /\ InitWith({<<>>}, {Explicit(<<>>)})
    /\ OptIdle
    /\ FitIdle
    /\ mwIn \in Margins
    /\ mwPc = "new"
    /\ mwOut = 0

\* updatePolyAndStat line 576: residualWidth := marginWidth(margin)
CallMarginWidth ==
    /\ mwPc = "new"
    /\ mwOut' = marginWidth(mwIn)
    /\ mwPc' = "width"
    /\ UNCHANGED <<kind, avars, bvars, ovars, fvars, mwIn>>

\* updatePolyAndStat lines 577-580: the width the span keeps
StoreWidth ==
    /\ mwPc = "width"
    /\ mwOut' = spanStat([poly |-> <<>>, residualWidth |-> 0, mem |-> 0,
                           ft |-> NewFit(0, minSpan, polyDegree)],
                          <<Big(0), Big(0), Big(0)>>, mwOut).residualWidth
    /\ mwPc' = "span"
    /\ UNCHANGED <<kind, avars, bvars, ovars, fvars, mwIn>>

NextWidth == CallMarginWidth \/ StoreWidth

SpecWidth == InitWidth /\ [][NextWidth]_vars

\* ------------------------------------------------------- fits of points
\* the fits are built over the points (pfStart + i, pfYs[i]): up to MaxFitLen
\* points, next to both ends of the range of x the cache covers
MaxFitLen == 4

FitStarts == {0, 1, 500, 1000, cacheLen - MaxFitLen}

FitVals == {Big(1), U32Max}

\* degree 2 is the cached one
FitDegrees == {1, polyDegree}

InitFit ==
    /\ InitWith({<<>>}, {Explicit(<<>>)})
    /\ OptIdle
    /\ WidthIdle
    /\ pfStart \in FitStarts
    /\ pfYs \in SeqsUpTo(FitVals, MaxFitLen)
    /\ pfDegree \in FitDegrees
    /\ pfPc = "new"
    /\ pfF = NoFit
    /\ pfB = NoFit
    /\ pfInt = NoFit

\* fint := NewFitIntRange(i, j, ys[i:j], degree)
CallNewFitIntRange ==
    /\ pfPc = "new"
    /\ pfInt' = NewFitIntRange(pfStart, pfStart + Len(pfYs), pfYs, pfDegree)
    /\ pfPc' = "range"
    /\ UNCHANGED <<kind, avars, bvars, ovars, mvars, pfStart, pfYs, pfDegree, pfF, pfB>>

\* f := NewFit over the first cut points, b := NewFit over the others
CallNewFit ==
    /\ pfPc = "new"
    /\ \E cut \in 0..Len(pfYs) :
           /\ pfF' = AccNewFit(pfStart, SubSeq(pfYs, 1, cut), pfDegree)
           /\ pfB' = AccNewFit(pfStart + cut, SubSeq(pfYs, cut + 1, Len(pfYs)), pfDegree)
    /\ pfPc' = "fits"
    /\ UNCHANGED <<kind, avars, bvars, ovars, mvars, pfStart, pfYs, pfDegree, pfInt>>

\* f.Merge(b): only f is written
CallMerge ==
    /\ pfPc = "fits"
    /\ pfF' = AccMerge(pfF, pfB)
    /\ pfPc' = "merged"
    /\ UNCHANGED <<kind, avars, bvars, ovars, mvars, pfStart, pfYs, pfDegree, pfB, pfInt>>

NextFit == CallNewFitIntRange \/ CallNewFit \/ CallMerge

SpecFit == InitFit /\ [][NextFit]_vars

\* ------------------------------------------------- several readers at once
ReaderVals == {Big(0), U32Max}

InitReaders ==
    /\ InitWith(SeqsUpTo(ReaderVals, MaxLen) \cup {Pattern("saw", 17)},
                {Explicit(<< <<97>>, <<>> >>)})
    /\ OptIdle
    /\ WidthIdle
    /\ FitIdle

NextReaders ==
    \/ Build
    \/ \E r \in Readers : \E i \in ReadIdx : Locate(r, i)
    \/ \E r \in Readers : Decode(r)
    \/ \E r \in Readers : ReadLen(r)
    \/ \E r \in Readers : ReadStat(r)
    \/ BuildBytes
    \/ \E i \in ReadIdx : BytesGet(i)
    \/ PositionsLen

SpecReaders == InitReaders /\ [][NextReaders]_vars

\* ------------------------------------------------------------ properties
\* C1: once NewU32(nums) has run, Get(i) returns nums[i] for every index i of nums,
\* whatever the values, the order and the length of nums.
RoundTrip ==
    pc = "built" =>
        \A i \in 1..Len(nums) : Get(sa, i - 1) = [panic |-> FALSE, val |-> nums[i]]

\* a reader has read the one element of the second segment
RoundTripWitness ==
    /\ pc = "built"
    /\ Len(nums) = segSize + 1
    /\ ret[1] = [op |-> "Get", i |-> segSize, res |-> [panic |-> FALSE, val |-> nums[segSize + 1]]]

\* C2: once NewBytes has accepted the records, SlimBytes.Get(i) returns the bytes of
\* record i for every index i of the records, empty records included.
BytesRoundTrip ==
    (bpc = "built" /\ berr = "nil" /\ ~sb.elided) =>
        \A i \in 1..Len(records.recs) :
            SlimBytesGet(sb, i - 1) = [panic |-> FALSE, val |-> records.recs[i]]

\* the empty third record of six has been read
BytesRoundTripWitness ==
    /\ bpc = "built"
    /\ records = Explicit(TestRecords)
    /\ bret = [op |-> "Get", i |-> 2, res |-> [panic |-> FALSE, val |-> <<>>]]

\* C3: NewBytes returns TooManyRows exactly when there are more than 2^31-1 records;
\* with no more records than that, it returns BytesTooLarge when the records hold more
\* than 2^32-1 bytes together, and otherwise a SlimBytes and a nil error; with an
\* error it returns no SlimBytes. The count is looked at first.
BytesLimits ==
    bpc = "built" =>
        LET tooMany  == BigLt(MaxInt32, recordCount(records))
            tooLarge == BigLt(U32Max, recordBytes(records))
        IN  /\ berr = "TooManyRows" <=> tooMany
            /\ (~tooMany /\ tooLarge) => berr = "BytesTooLarge"
            /\ (~tooMany /\ ~tooLarge) => (berr = "nil" /\ ~sb.nil)
            /\ berr # "nil" => sb = NoBytes

\* one record too large for the limit has been refused
BytesLimitsWitness ==
    /\ bpc = "built"
    /\ records = Bulk(Big(1), Pow32)
    /\ berr = "BytesTooLarge"
    /\ sb.nil

\* C4, as amended: SlimBytes.Get(i) panics for every i < 0. For i = n, the number of
\* records, it panics unless the read one past the end of Positions, Positions.Get(n+1),
\* returns len(Records); it then returns an empty slice.
NegIdx == {-1, -2, -segSize, -segSize - 1}

BytesGetOutside ==
    (bpc = "built" /\ berr = "nil" /\ ~sb.elided) =>
        /\ \A i \in NegIdx : SlimBytesGet(sb, i).panic
        /\ LET n == Len(records.recs)
           IN  \/ SlimBytesGet(sb, n).panic
               \/ /\ SlimBytesGet(sb, n).val = <<>>
                  /\ Get(sb.Positions, n + 1) = [panic |-> FALSE, val |-> Big(Len(sb.Records))]

\* Get(6) of the six records has panicked
BytesGetOutsideWitness ==
    /\ bpc = "built"
    /\ records = Explicit(TestRecords)
    /\ bret = [op |-> "Get", i |-> 6, res |-> NoSlice]

\* C4, in its original form: SlimBytes.Get(i) panics for i = -1 and for i = n.
BytesGetPanicsOutside ==
    (bpc = "built" /\ berr = "nil" /\ ~sb.elided) =>
        /\ SlimBytesGet(sb, -1).panic
        /\ SlimBytesGet(sb, Len(records.recs)).panic

\* the elements of the array handed to NewU32 by NewBytes: an offset for each record
\* and one for the end
positionsCount(in) == BigAdd(recordCount(in), Big(1))

\* C5: Len returns the number of elements NewU32 was given; here NewU32 was given
\* the offsets of the records that NewBytes accepted.
LenIsCount ==
    (bpc = "built" /\ bret.op = "Len") => bret.res = positionsCount(records)

\* C6: Get, Len, Stat and SlimBytes.Get leave the SlimArray and the SlimBytes as
\* NewU32 and NewBytes made them, and what a reader gets, whatever the other
\* readers do between its steps, is what the read returns when done in one step.
ReadsAgree ==
    /\ \A r \in Readers :
          /\ ret[r].op = "Get" => ret[r].res = Get(sa, ret[r].i)
          /\ ret[r].op = "Len" => ret[r].res = SlimLen(sa)
          /\ ret[r].op = "Stat" => ret[r].res = Stat(sa)
    /\ bret.op = "Get" => bret.res = SlimBytesGet(sb, bret.i)
    /\ bret.op = "Len" => bret.res = SlimLen(sb.Positions)

ReadsReadOnly ==
    /\ []ReadsAgree
    /\ [][(pc = "built" => sa' = sa) /\ (bpc = "built" => sb' = sb)]_vars

\* a reader is between the two halves of a Get, the other has one done and has
\* read in between, and a record has been read
ReadsReadOnlyWitness ==
    /\ rpc[1] = "located"
    /\ rloc[1].i = 1
    /\ ret[2] = [op |-> "Get", i |-> 0, res |-> [panic |-> FALSE, val |-> U32Max]]
    /\ bret = [op |-> "Get", i |-> 0, res |-> [panic |-> FALSE, val |-> <<97>>]]

\* the set bits of the first s bitmaps
RECURSIVE countBits(_, _)
countBits(bitmaps, s) ==
    IF s = 0 THEN 0 ELSE countBits(bitmaps, s - 1) + Cardinality(bitmaps[s])

\* C7: once NewU32 has run, the rank of the first segment is 0 and the rank of every
\* other segment is the rank of the segment before it plus the set bits of that
\* segment's bitmap: the rank of a segment is the number of spans before it.
RankConsistent ==
    pc = "built" =>
        /\ Len(sa.Rank) > 0 => sa.Rank[1] = 0
        /\ \A s \in 1..(Len(sa.Rank) - 1) :
              sa.Rank[s + 1] = sa.Rank[s] + Cardinality(sa.Bitmap[s])
        /\ \A s \in 1..Len(sa.Rank) : sa.Rank[s] = countBits(sa.Bitmap, s - 1)

\* two segments, the first of more than one span
RankConsistentWitness ==
    /\ pc = "built"
    /\ Len(sa.Rank) = 2
    /\ sa.Rank[2] > 1

\* C8: once NewU32 has run on n elements, Rank and Bitmap have ceil(n/1024) entries
\* each, and the last segment ends with element n-1.
SegmentCount ==
    pc = "built" =>
        /\ Len(sa.Rank) = (Len(nums) + segSize - 1) \div segSize
        /\ Len(sa.Bitmap) = (Len(nums) + segSize - 1) \div segSize
        /\ Len(nums) > 0 =>
              ((Len(nums) - 1) % segSize) \div 16 \in sa.Bitmap[Len(sa.Bitmap)]
        /\ Len(nums) > 0 =>
              \A b \in sa.Bitmap[Len(sa.Bitmap)] : b <= ((Len(nums) - 1) % segSize) \div 16

\* 1025 elements: two segments, the second of one element
SegmentCountWitness ==
    /\ pc = "built"
    /\ Len(nums) = segSize + 1
    /\ Len(sa.Rank) = 2
    /\ sa.Bitmap[2] = {0}

\* C9: once NewU32 has run, the set bits of all bitmaps together are as many as the
\* configs, and there are three coefficients for each config.
SpanCount ==
    pc = "built" =>
        /\ countBits(sa.Bitmap, Len(sa.Bitmap)) = Len(sa.Configs)
        /\ Len(sa.Polynomials) = polyCoefCnt * Len(sa.Configs)

\* several spans in one segment
SpanCountWitness ==
    /\ pc = "built"
    /\ Len(sa.Bitmap) = 1
    /\ Len(sa.Configs) >= 3

Widths == {0, 1, 2, 4, 8, 16, 32}

\* C10: once NewU32 has run, the low 8 bits of every config are one of
\* 0, 1, 2, 4, 8, 16, 32.
ConfigWidths ==
    pc = "built" => \A k \in 1..Len(sa.Configs) : sa.Configs[k] % 256 \in Widths

\* a span of the widest residuals next to a span of narrower ones
ConfigWidthsWitness ==
    /\ pc = "built"
    /\ \E k \in 1..Len(sa.Configs) : sa.Configs[k] % 256 = 32
    /\ \E k \in 1..Len(sa.Configs) : sa.Configs[k] % 256 \in {1, 2, 4, 8, 16}

\* C11: once NewU32 has run, for every index i of nums the word of Residuals that
\* Get(i) loads is one of the words of Residuals; the last word is the zero word
\* that NewU32 appends, which is what a span of width 0 at the end of the stream loads.
InBoundsReads ==
    pc = "built" =>
        /\ Len(sa.Residuals) > 0
        /\ sa.Residuals[Len(sa.Residuals)] = {}
        /\ \A i \in 0..(Len(nums) - 1) :
              LET at == getLocate(sa, i)
              IN  /\ ~at.panic
                  /\ at.spanIdx < Len(sa.Configs)
                  /\ residualWord(sa, at.j, at.spanIdx) \in 0..(Len(sa.Residuals) - 1)

\* the one element of a one-element input has been read from the appended word
InBoundsReadsWitness ==
    /\ pc = "built"
    /\ Len(nums) = 1
    /\ Len(sa.Residuals) = 1
    /\ residualWord(sa, 0, 0) = 0
    /\ ret[1] = [op |-> "Get", i |-> 0, res |-> [panic |-> FALSE, val |-> nums[1]]]

\* C12: for the empty input Len returns 0, and Stat returns 0 for n, seg_cnt,
\* span_cnt, spans/seg and elt_width.
StatEmptyZeros ==
    (pc = "built" /\ Len(nums) = 0) =>
        /\ ret[1].op = "Len" => ret[1].res = Big(0)
        /\ ret[1].op = "Stat" =>
              /\ ret[1].res.n = Big(0)
              /\ ret[1].res.seg_cnt = 0
              /\ ret[1].res.span_cnt = 0
              /\ ret[1].res.spans_seg = 0
              /\ ret[1].res.elt_width = 0

\* offset i of the SlimBytes, as a read of Positions returns it
posAt(i) == Get(sb.Positions, i)

\* C13: once NewBytes has accepted n records, Positions holds n+1 offsets: offset 0
\* is 0, offset i+1 is offset i plus the length of record i, offset n is the length
\* of Records, and the bytes of Records from offset i on are the bytes of record i.
PositionsOffsets ==
    (bpc = "built" /\ berr = "nil" /\ ~sb.elided) =>
        LET n == Len(records.recs)
        IN  /\ Len(sb.Positions.Bitmap) = (n + segSize) \div segSize
            /\ (n % segSize) \div 16 \in sb.Positions.Bitmap[Len(sb.Positions.Bitmap)]
            /\ \A b \in sb.Positions.Bitmap[Len(sb.Positions.Bitmap)] : b <= (n % segSize) \div 16
            /\ \A i \in 0..n : ~posAt(i).panic
            /\ posAt(0).val = Big(0)
            /\ \A i \in 1..n :
                  posAt(i).val = BigAdd(posAt(i - 1).val, Big(Len(records.recs[i])))
            /\ posAt(n).val = Big(Len(sb.Records))
            /\ \A i \in 1..n : \A k \in 1..Len(records.recs[i]) :
                  sb.Records[BigInt(posAt(i - 1).val) + k] = records.recs[i][k]

\* the seven offsets of the six records of the test, the third record empty
PositionsOffsetsWitness ==
    /\ bpc = "built"
    /\ records = Explicit(TestRecords)
    /\ posAt(2).val = Big(6)
    /\ posAt(3).val = Big(6)
    /\ posAt(6).val = Big(19)
    /\ Len(sb.Records) = 19

\* the elements of segment seg (from 1) of nums
segNums(seg) ==
    SubSeq(nums, (seg - 1) * segSize + 1,
           IF seg * segSize < Len(nums) THEN seg * segSize ELSE Len(nums))

\* the width marginWidth returns for the spread of the residuals of a span
widthOfSpread(mm) == marginWidth(FloatCeil(BigSub(mm.max, mm.min)))

\* the width the residuals of span k of segment seg need, before any cap
widthNeeded(seg, k) ==
    widthOfSpread(maxMinResiduals(enc[seg][k].origPoly, segNums(seg),
                                  enc[seg][k].s, enc[seg][k].e))

\* the spans NewU32 laid out, as pairs of segment and position in the segment
EncSpans ==
    {x \in (1..Len(enc)) \X (1..(segSize \div minSpan)) : x[2] <= Len(enc[x[1]])}

\* C15, as amended: NewU32 stops for no encoding limit. A span whose residuals need
\* more than 32 bits is stored with width 32 and NewU32 returns the array, from
\* which every element of that span still reads back.
WidthCapped ==
    pc = "built" =>
        \A x \in EncSpans :
            /\ enc[x[1]][x[2]].residualWidth
                 = (IF widthNeeded(x[1], x[2]) > 32 THEN 32 ELSE widthNeeded(x[1], x[2]))
            /\ widthNeeded(x[1], x[2]) > 32 =>
                  \A j \in enc[x[1]][x[2]].s..(enc[x[1]][x[2]].e - 1) :
                      Get(sa, (x[1] - 1) * segSize + j)
                        = [panic |-> FALSE, val |-> nums[(x[1] - 1) * segSize + j + 1]]

\* an array with a span that needs more than 32 bits has been returned and read
WidthCappedWitness ==
    /\ pc = "built"
    /\ \E x \in EncSpans : widthNeeded(x[1], x[2]) > 32
    /\ ret[1].op = "Get"
    /\ ret[1].i = 1
    /\ ret[1].res = [panic |-> FALSE, val |-> nums[2]]

\* C15, in its original form: NewU32 returns no array when a span's residuals would
\* need more than 32 bits.
NoWideSpanBuilt ==
    pc = "built" => \A x \in EncSpans : widthNeeded(x[1], x[2]) <= 32

\* the spans laid out for the segments before segment seg
RECURSIVE spansBefore(_)
spansBefore(seg) == IF seg = 1 THEN 0 ELSE spansBefore(seg - 1) + Len(enc[seg - 1])

\* the spans of each segment follow one another from element 0 to the last element
SpansPartition ==
    \A seg \in 1..Len(enc) :
        /\ Len(enc[seg]) > 0
        /\ enc[seg][1].s = 0
        /\ enc[seg][Len(enc[seg])].e = Len(segNums(seg))
        /\ \A k \in 1..Len(enc[seg]) : enc[seg][k].s < enc[seg][k].e
        /\ \A k \in 1..(Len(enc[seg]) - 1) : enc[seg][k + 1].s = enc[seg][k].e

\* C16: once NewU32 has run, for every index i of nums, with j = i & 1023, the rank
\* of segment i >> 10 plus the set bits of its bitmap below bit j >> 4 is the place,
\* among all spans, of the one span whose range holds j; the polynomial and the
\* config Get reads there are that span's.
SpanLookup ==
    pc = "built" =>
        /\ SpansPartition
        /\ \A i \in 0..(Len(nums) - 1) :
              LET at  == getLocate(sa, i)
                  seg == (i \div segSize) + 1
                  k   == at.spanIdx - spansBefore(seg) + 1
              IN  /\ ~at.panic
                  /\ k \in 1..Len(enc[seg])
                  /\ enc[seg][k].s <= at.j
                  /\ at.j < enc[seg][k].e
                  /\ SubSeq(sa.Polynomials, polyCoefCnt * at.spanIdx + 1,
                            polyCoefCnt * at.spanIdx + polyCoefCnt) = enc[seg][k].poly
                  /\ sa.Configs[at.spanIdx + 1] % 256 = enc[seg][k].residualWidth

\* a reader has found the second span of a segment, which starts at element 16
SpanLookupWitness ==
    /\ pc = "built"
    /\ rpc[1] = "located"
    /\ rloc[1] = [i |-> 17, j |-> 17, spanIdx |-> 1]
    /\ Len(enc[1]) >= 2
    /\ enc[1][2].s = 16

\* the residual newSeg stores for element j of span k of segment seg
encResidual(seg, k, j) == residualOf(segNums(seg), enc[seg][k], j)

encConfig(seg, k) == sa.Configs[spansBefore(seg) + k]

\* the bit of Residuals the encoder reached when it wrote element j of span k
encBitPos(seg, k, j) ==
    enc[seg][k].resI + (j - enc[seg][k].s) * enc[seg][k].residualWidth

\* the w bits of Residuals from bit pos on, as bit positions from 0
bitsAt(pos, w) ==
    {b \in 0..(w - 1) : ((pos % wordBits) + b) \in sa.Residuals[(pos \div wordBits) + 1]}

\* C18: once NewU32 has run, for every span, config & 0xff is the width packed and
\* config >> 8 is the offset packed, resI + start - s*width, also when that offset
\* is negative; and for every element j of the span, offset + j*width is not
\* negative and is the bit the encoder wrote the residual of j at, where Residuals
\* holds that residual.
ConfigRoundTrip ==
    pc = "built" =>
        \A x \in EncSpans :
            LET sp     == enc[x[1]][x[2]]
                width  == encConfig(x[1], x[2]) % 256
                offset == encConfig(x[1], x[2]) \div 256
            IN  /\ width = sp.residualWidth
                /\ offset = sp.resI - sp.s * sp.residualWidth
                /\ \A j \in sp.s..(sp.e - 1) :
                      /\ offset + j * width >= 0
                      /\ offset + j * width = encBitPos(x[1], x[2], j)
                      /\ bitsAt(offset + j * width, width)
                           = BigBits(encResidual(x[1], x[2], j))

\* a span has a negative offset in its config, and a reader has read an element of
\* it
ConfigRoundTripWitness ==
    /\ pc = "built"
    /\ ret[1].op = "Get"
    /\ ret[1].i \in 0..(Len(nums) - 1)
    /\ sa.Configs[getLocate(sa, ret[1].i).spanIdx + 1] < 0
    /\ ret[1].res = [panic |-> FALSE, val |-> nums[ret[1].i + 1]]

\* C19: once NewU32 has run, for every span of a width w > 0 that starts at element
\* s, offset + s*w, with offset the one unpacked from the span's config, is a
\* multiple of w.
ResidualsAligned ==
    pc = "built" =>
        \A x \in EncSpans :
            LET sp     == enc[x[1]][x[2]]
                width  == encConfig(x[1], x[2]) % 256
                offset == encConfig(x[1], x[2]) \div 256
            IN  width > 0 =>
                    /\ (offset + sp.s * width) % width = 0
                    /\ offset + sp.s * width = sp.resI

\* the first residual of a span was moved up from the end of the span before it
ResidualsAlignedWitness ==
    /\ pc = "built"
    /\ \E x \in EncSpans :
          /\ x[2] > 1
          /\ enc[x[1]][x[2]].residualWidth > 0
          /\ enc[x[1]][x[2]].resI
                > enc[x[1]][x[2] - 1].resI
                    + (enc[x[1]][x[2] - 1].e - enc[x[1]][x[2] - 1].s)
                        * enc[x[1]][x[2] - 1].residualWidth

\* C20: once NewU32 has run, for every element j of every span of width w, with pos
\* the bit offset + j*w of its residual, (pos mod 64) + w <= 64: the residual lies
\* in one word of Residuals.
NoStraddle ==
    pc = "built" =>
        \A x \in EncSpans :
            LET sp     == enc[x[1]][x[2]]
                width  == encConfig(x[1], x[2]) % 256
                offset == encConfig(x[1], x[2]) \div 256
            IN  \A j \in sp.s..(sp.e - 1) :
                    ((offset + j * width) % wordBits) + width <= wordBits

\* a residual ends on the last bit of a word and the next residual of the span
\* starts the next word
NoStraddleWitness ==
    /\ pc = "built"
    /\ \E x \in EncSpans :
          /\ enc[x[1]][x[2]].residualWidth > 0
          /\ \E j \in enc[x[1]][x[2]].s..(enc[x[1]][x[2]].e - 2) :
                (encBitPos(x[1], x[2], j) % wordBits) + enc[x[1]][x[2]].residualWidth
                  = wordBits

\* the span objects the two lists point to
idsOf(seq) == {seq[k] : k \in 1..Len(seq)}

\* a span's fitting holds the samples s..e-1, each once
fitCovers(sp) ==
    /\ sp.ft.N = sp.e - sp.s
    /\ sp.ft.lo = sp.s
    /\ sp.ft.hi = sp.e - 1

\* spans is a partition of [0, len) into consecutive ranges whose bounds are
\* multiples of 16 but for the last end, merged has one element less, merged[i]
\* covers [spans[i].s, spans[i+1].e) with the samples of both, every sample count
\* is e - s, and no span object is in both lists or twice in one
MergeLoopShape ==
    /\ Len(optSpans) >= 1
    /\ optSpans[1].s = 0
    /\ optSpans[Len(optSpans)].e = Len(optYs)
    /\ \A k \in 1..Len(optSpans) :
          /\ optSpans[k].s < optSpans[k].e
          /\ optSpans[k].s % minSpan = 0
          /\ k < Len(optSpans) => optSpans[k].e % minSpan = 0
          /\ k < Len(optSpans) => optSpans[k + 1].s = optSpans[k].e
          /\ fitCovers(optSpans[k])
          /\ optFts.spans[k].N = optSpans[k].e - optSpans[k].s
    /\ Len(optMerged) = Len(optSpans) - 1
    /\ \A k \in 1..Len(optMerged) :
          /\ optMerged[k].s = optSpans[k].s
          /\ optMerged[k].e = optSpans[k + 1].e
          /\ optMerged[k].ft.N = optSpans[k].ft.N + optSpans[k + 1].ft.N
          /\ fitCovers(optMerged[k])
          /\ optFts.merged[k].N = optFts.spans[k].N + optFts.spans[k + 1].N
    /\ Len(optIds.spans) = Len(optSpans)
    /\ Len(optIds.merged) = Len(optMerged)
    /\ Cardinality(idsOf(optIds.spans) \cup idsOf(optIds.merged))
         = Len(optSpans) + Len(optMerged)

\* no sum of the fitting reaches 2^53, so none of the additions that made it rounded
sumsExact(f) == \A k \in 1..Len(f.xty) : F64BitLen(f.xty[k]) <= F64Mant

\* C21, as amended: whenever an iteration of the loop of findMinFittingsNew starts,
\* spans and merged have the shape above; the sample count and XtX of merged[i] are
\* the sums of those of spans[i] and spans[i+1]; and XtY of merged[i] is the sum of
\* theirs when no sum of merged[i] reaches 2^53 (beyond that the two are sums of the
\* same terms in another order and may differ by rounding).
MergeLoopInvariant ==
    optPc = "loop" =>
        /\ MergeLoopShape
        /\ \A k \in 1..Len(optMerged) :
              LET sum == AccMerge(optFts.spans[k], optFts.spans[k + 1])
              IN  /\ optFts.merged[k].N = sum.N
                  /\ optFts.merged[k].xtx = sum.xtx
                  /\ sumsExact(optFts.merged[k]) => optFts.merged[k].xty = sum.xty

\* an iteration starts after two merges, with at least three spans left, a merged
\* fitting with a sum of 2^53 or more and one without
MergeLoopInvariantWitness ==
    /\ optPc = "loop"
    /\ optMerges >= 2
    /\ Len(optSpans) >= 3
    /\ \E k \in 1..Len(optMerged) : ~sumsExact(optFts.merged[k])
    /\ \E k \in 1..Len(optMerged) : sumsExact(optFts.merged[k])

\* C21, in its original form: the sums of the fitting of merged[i] are the sums of
\* those of spans[i] and spans[i+1], XtY too, at the start of every iteration.
MergeLoopSumsEqual ==
    optPc = "loop" =>
        /\ MergeLoopShape
        /\ \A k \in 1..Len(optMerged) :
              optFts.merged[k] = AccMerge(optFts.spans[k], optFts.spans[k + 1])

\* what merging the pair at index i of merged saves: a.mem + b.mem - merged.mem
saving(i) == optSpans[i + 1].mem + optSpans[i + 2].mem - optMerged[i + 1].mem

\* the indexes of merged the scan looks at
scanned == 1..(Len(optMerged) - 1)

\* spans after the pair at index i has become the one span merged[i]
collapsed(i) ==
    [k \in 1..(Len(optSpans) - 1) |->
        IF k <= i THEN optSpans[k]
        ELSE IF k = i + 1 THEN optMerged[i + 1]
        ELSE optSpans[k + 1]]

\* C22: an iteration of the loop of findMinFittingsNew that merges takes a pair at
\* an index i >= 1 of merged whose saving is positive, not less than the saving of
\* any other pair at an index >= 1 and more than that of every such pair left of
\* it, and makes that pair one span; an iteration that does not merge ends the
\* loop, and then no pair at an index >= 1 has a positive saving.
GreedyRule ==
    [][optPc = "loop" =>
          IF optMerges' # optMerges
          THEN /\ optLast'.maxI \in scanned
               /\ saving(optLast'.maxI) > 0
               /\ optLast'.maxReduced = saving(optLast'.maxI)
               /\ \A k \in scanned : saving(k) <= saving(optLast'.maxI)
               /\ \A k \in scanned : k < optLast'.maxI => saving(k) < saving(optLast'.maxI)
               /\ optSpans' = collapsed(optLast'.maxI)
               /\ optPc' = "loop"
          ELSE /\ optPc' = "done"
               /\ optSpans' = optSpans
               /\ \A k \in scanned : saving(k) <= 0]_vars

\* the loop has ended after a merge with three pairs or more left, none of the
\* scanned ones with a positive saving
GreedyRuleWitness ==
    /\ optPc = "done"
    /\ optMerges >= 1
    /\ Len(optMerged) >= 3
    /\ \A k \in scanned : saving(k) <= 0

\* C23: in the loop of findMinFittingsNew and when it returns, the first span of a
\* segment of more than 16 elements is [0, 16); a merge is never of the pair at
\* index 0 of merged; and a segment of at most 32 elements is never merged. The
\* spans returned are those newSeg lays out.
FirstSpanKept ==
    /\ (optPc # "idle" /\ Len(optYs) > minSpan) =>
           optSpans[1].s = 0 /\ optSpans[1].e = minSpan
    /\ optMerges > 0 => optLast.maxI >= 1 \/ optPc = "done"
    /\ (optPc # "idle" /\ Len(optYs) <= 2 * minSpan) => optMerges = 0
    /\ optPc = "done" =>
           optSpans = findMinFittingsNew(optYs, kind, initFittings(Len(optYs), minSpan))

\* spans have been returned after a merge, the first of them [0, 16), though
\* merging the pair at index 0 would save memory
FirstSpanKeptWitness ==
    /\ optPc = "done"
    /\ optMerges >= 1
    /\ optSpans[1].e = minSpan
    /\ saving(0) > 0

\* span k of segment seg is the last span of the last segment
lastSpan(seg, k) == seg = Len(enc) /\ k = Len(enc[seg])

\* C24: once NewU32 has run, every span but the last span of the last segment holds
\* 16*k elements with 1 <= k < 64; the last span of the last segment holds at least
\* one element; no span holds the 1024 elements of a full segment; and no segment
\* has more than 64 spans.
SpanSizes ==
    pc = "built" =>
        /\ \A seg \in 1..Len(enc) : Len(enc[seg]) <= segSize \div minSpan
        /\ \A x \in EncSpans :
              LET n == enc[x[1]][x[2]].e - enc[x[1]][x[2]].s
              IN  /\ n >= 1
                  /\ n < segSize
                  /\ ~lastSpan(x[1], x[2]) =>
                         n % minSpan = 0 /\ n \div minSpan \in 1..(segSize \div minSpan - 1)

\* a segment of 1024 elements is laid out as a span of 16 and a span of 16*63
\* elements, and the last span of the last segment holds one element
SpanSizesWitness ==
    /\ pc = "built"
    /\ Len(enc) = 2
    /\ Len(enc[1]) = 2
    /\ enc[1][2].e - enc[1][2].s = minSpan * (segSize \div minSpan - 1)
    /\ enc[2][1].e - enc[2][1].s = 1

\* the fittings initFittings makes for the segment: ceil(len / 16)
fitCount == (Len(optYs) + minSpan - 1) \div minSpan

\* C25: the loop of findMinFittingsNew ends for every segment: every merge takes
\* one element out of spans and one out of merged, there are never more than
\* ceil(len/16) - 1 merges, and in the end the spans are returned.
MergeTerminates ==
    /\ [](optPc # "idle" =>
             /\ Len(optSpans) = fitCount - optMerges
             /\ Len(optMerged) = fitCount - 1 - optMerges
             /\ optMerges <= fitCount - 1)
    /\ <>(optPc = "done")

\* the loop has ended after three merges or more
MergeTerminatesWitness ==
    /\ optPc = "done"
    /\ optMerges >= 3
    /\ Len(optSpans) = fitCount - optMerges

\* the widths a span can have
SpanWidths == {0, 1, 2, 4, 8, 16, 32}

\* margin <= 2^w - 1
holds(margin, w) == BigLt(margin, BigPow2(w))

\* C26: for a margin m in [0, 2^32), marginWidth(m) is the least w of 0, 1, 2, 4,
\* 8, 16, 32 with m <= 2^w - 1, 0 for m = 0; and for every margin, greater ones
\* too, the width the span builder stores is that w, or 32 when m >= 2^32.
WidthSelection ==
    /\ (mwPc = "width" /\ holds(mwIn, 32)) =>
           /\ mwOut \in SpanWidths
           /\ holds(mwIn, mwOut)
           /\ \A w \in SpanWidths : holds(mwIn, w) => mwOut <= w
    /\ mwPc = "span" =>
           /\ mwOut \in SpanWidths
           /\ holds(mwIn, 32) => holds(mwIn, mwOut)
           /\ holds(mwIn, 32) => \A w \in SpanWidths : holds(mwIn, w) => mwOut <= w
           /\ ~holds(mwIn, 32) => mwOut = 32

\* marginWidth has returned 0 for the margin 0
WidthSelectionWitness ==
    /\ mwPc = "width"
    /\ mwIn = Big(0)
    /\ mwOut = 0

\* C27, as amended: after f.Merge(b), for fits of degree at most 2 over at most 1024
\* points with whole xs in [0, 1024) and whole ys in [0, 2^32), f's sample count and
\* XtX equal those of a fit built by adding all points of f and then all points of b,
\* and so does XtY whenever none of its components reaches 2^53; b is unchanged, and
\* b.Merge(f) would have produced the same sums.
MergeIsConcat ==
    [][(pfPc = "fits" /\ pfPc' = "merged") =>
          /\ pfF'.N = AccNewFit(pfStart, pfYs, pfDegree).N
          /\ pfF'.Degree = pfDegree
          /\ pfF'.xtx = AccNewFit(pfStart, pfYs, pfDegree).xtx
          /\ sumsExact(AccNewFit(pfStart, pfYs, pfDegree)) =>
                 pfF'.xty = AccNewFit(pfStart, pfYs, pfDegree).xty
          /\ pfB' = pfB
          /\ pfF'.xtx = [k \in 1..Len(pfF.xtx) |-> F64Add(pfB.xtx[k], pfF.xtx[k])]
          /\ pfF'.xty = [k \in 1..Len(pfF.xty) |-> F64Add(pfB.xty[k], pfF.xty[k])]
          /\ pfF'.N = pfB.N + pfF.N]_vars

\* two fits of two points each have been merged, and the sum of x*x*y is past 2^53
MergeIsConcatWitness ==
    /\ pfPc = "merged"
    /\ pfB.N = 2
    /\ pfF.N = 4
    /\ pfDegree = polyDegree
    /\ ~sumsExact(pfF)

\* C27, in its original form: after f.Merge(b), f's sample count, XtX and XtY equal
\* those of a fit built by adding all points of f followed by all points of b.
MergeEqualsConcat ==
    pfPc = "merged" => pfF = AccNewFit(pfStart, pfYs, pfDegree)

\* C28: for 0 <= a <= b <= 1024, NewFitIntRange(a, b, ys, degree) equals NewFit over
\* xs = a, ..., b-1 and the same ys, in N, Degree, XtX and XtY, for degree 2 (XtX read
\* from the cache) and for a degree that is not cached.
IntRangeIsNewFit ==
    pfPc = "range" => pfInt = AccNewFit(pfStart, pfYs, pfDegree)

\* a cached fit of the last points the cache covers
IntRangeIsNewFitWitness ==
    /\ pfPc = "range"
    /\ pfDegree = polyDegree
    /\ pfStart + Len(pfYs) = cacheLen
    /\ pfInt.N = MaxFitLen
    /\ pfInt.xtx = [i \in 1..9 |-> F64Sub(XTXCache3[cacheLen + 1][i], XTXCache3[pfStart + 1][i])]

\* C29: for every record count NewBytes accepts, the positions array holds one
\* element more than there are records: its N, a signed 32-bit integer, is that count.
PositionsCountFits ==
    (bpc = "built" /\ berr = "nil") =>
        /\ sb.Positions.N = positionsCount(records)
        /\ BigLe(Big(0), sb.Positions.N)

\* C30: for every non-empty array, Stat's spans/seg is span_cnt divided by seg_cnt,
\* truncated.
SpansPerSegIsAverage ==
    (pc = "built" /\ Len(nums) > 0 /\ ret[1].op = "Stat") =>
        ret[1].res.spans_seg = ret[1].res.span_cnt \div ret[1].res.seg_cnt

====
